---- MODULE Spec2Model ----
(***************************************************************************)
(* A model of spotilist.py: the playlist enumerator, the paginated track   *)
(* fetcher, the playlist and track parsers, and the pipeline of main().    *)
(*                                                                         *)
(* A Python dict is a record with a field `keys` (the keys it holds) next  *)
(* to one field per possible key; an object is a record with a field       *)
(* `attrs` (the attributes that are set).  Reading a key that is not in    *)
(* `keys` is a KeyError, reading an attribute that is not in `attrs` is an *)
(* AttributeError.  No exception is caught anywhere in the program, so a   *)
(* raised exception ends the run (pc = "crashed").                         *)
(***************************************************************************)
EXTENDS Integers, Sequences, FiniteSets, TLC

\* Bounds of the model.
MaxPlaylists == 3      \* most items in a listing response
MaxTotal == 2          \* largest declared tracks.total
MaxPage == 2           \* most items in one track page
MaxReq == MaxTotal + 1 \* the request counter saturates here

\* query["limit"] of a track page request.
Limit == 50

Statuses == {200, 500}

Min(a, b) == IF a < b THEN a ELSE b

SeqsUpTo(S, n) == UNION {[1..k -> S] : k \in 0..n}

----------------------------------------------------------------------------
(* Raw data of the provider.                                               *)

PlaylistKeys == {"type", "description", "name", "owner", "tracks", "href"}

\* A raw playlist item of the listing holding the keys `keys`, whose
\* tracks.total (when it has the key) is `total`.
RawPlaylist(keys, total) ==
    [keys |-> keys,
     type |-> "playlist",
     description |-> "d",
     name |-> "n",
     owner |-> "o",
     tracks |-> [total |-> IF "tracks" \in keys THEN total ELSE 0, href |-> "t"],
     href |-> "h"]

\* The listing items of the model: every key present with each total, and
\* one of the keys that later code reads missing.
ListingItems ==
    {RawPlaylist(PlaylistKeys, t) : t \in 0..MaxTotal}
    \cup {RawPlaylist(PlaylistKeys \ {k}, 1) : k \in {"type", "name", "tracks"}}

TrackKeys == {"type", "album", "artists", "name", "track_number"}

\* The nested `track` payload of a raw track item.
Payload(keys, name, artists) ==
    [keys |-> keys, type |-> "track", name |-> name, track_number |-> 1,
     album |-> [name |-> "al"], artists |-> artists]

\* The same payload with the type tag `type`.
PayloadOfType(keys, type, name, artists) ==
    [Payload(keys, name, artists) EXCEPT !.type = type]

Artist == [name |-> "ar", external_urls |-> [spotify |-> "u"]]

\* The raw track items of the model: a complete one, one without album and
\* with an empty artists list, and one without the `track` key.
ItemA == [keys |-> {"track"}, track |-> Payload(TrackKeys, "a", <<Artist>>)]
ItemB == [keys |-> {"track"}, track |-> Payload(TrackKeys \ {"album"}, "b", <<>>)]
ItemX == [keys |-> {}, track |-> Payload({}, "", <<>>)]

RawTracks == {ItemA, ItemB, ItemX}

\* The raw track items the parser is tried on alone: no `track` key, or a
\* payload with any subset of its keys (the empty payload among them), tagged
\* "track" or "episode", with one artist or none.
ParserItems ==
    {ItemX}
    \cup {[keys |-> {"track"}, track |-> PayloadOfType(ks, ty, "a", ar)] :
            ks \in SUBSET TrackKeys, ty \in {"track", "episode"},
            ar \in {<<>>, <<Artist>>}}

\* A response to a track page request: the status and the JSON body.
PageOk(items) == [status |-> 200, keys |-> {"items"}, items |-> items]
PageNoItems == [status |-> 200, keys |-> {}, items |-> <<>>]
PageError(st) == [status |-> st, keys |-> {}, items |-> <<>>]
NoResponse == [status |-> 0, keys |-> {}, items |-> <<>>]

Pages ==
    {PageOk(s) : s \in SeqsUpTo(RawTracks, MaxPage)}
    \cup {PageNoItems}
    \cup {PageError(st) : st \in Statuses \ {200}}

\* A response to the listing request.
ListingOk(total, items) == [status |-> 200, total |-> total, items |-> items]
ListingError(st) == [status |-> st, total |-> 0, items |-> <<>>]
NoListing == [status |-> 0, total |-> 0, items |-> <<>>]

Listings ==
    {ListingOk(t, s) : t \in 0..MaxPlaylists, s \in SeqsUpTo(ListingItems, MaxPlaylists)}
    \cup {ListingError(st) : st \in Statuses \ {200}}

----------------------------------------------------------------------------
(* Playlist.__init__                                                       *)

\* The type check: `if 'type' not in data.keys(): if data['type'] != ...`.
\* The inner test reads data['type'] exactly when the key is missing, which
\* is a KeyError; with the key present the check is skipped.
PlaylistInitRaises(data) ==
    IF "type" \notin data.keys
    THEN IF "type" \notin data.keys THEN TRUE ELSE data.type # "playlist"
    ELSE FALSE

\* The object construction leaves: each present field copied, tracks = [].
PlaylistInit(data) ==
    [attrs |-> {"tracks"}
               \cup (IF "description" \in data.keys THEN {"description"} ELSE {})
               \cup (IF "name" \in data.keys THEN {"name"} ELSE {})
               \cup (IF "owner" \in data.keys THEN {"owner"} ELSE {})
               \cup (IF "tracks" \in data.keys THEN {"tracks_size", "tracks_uri"} ELSE {})
               \cup (IF "href" \in data.keys THEN {"uri"} ELSE {}),
     description |-> IF "description" \in data.keys THEN data.description ELSE "",
     name |-> IF "name" \in data.keys THEN data.name ELSE "",
     owner |-> IF "owner" \in data.keys THEN data.owner ELSE "",
     tracks_size |-> IF "tracks" \in data.keys THEN data.tracks.total ELSE 0,
     tracks_uri |-> IF "tracks" \in data.keys THEN data.tracks.href ELSE "",
     uri |-> IF "href" \in data.keys THEN data.href ELSE "",
     tracks |-> <<>>]

----------------------------------------------------------------------------
(* Track.__init__                                                          *)

\* Track(data) raises: no `track` key (Exception), no `type` key in the
\* payload (KeyError), a type other than "track", a falsy payload, or no
\* `name` / `track_number` key (KeyError).
\* A parser that forgets the comparison of the type tag.
TrackInitRaisesUntyped(data) ==
    \/ "track" \notin data.keys
    \/ "type" \notin data.track.keys
    \/ data.track.keys = {}
    \/ "name" \notin data.track.keys
    \/ "track_number" \notin data.track.keys

TrackInitRaises(data) ==
    \/ "track" \notin data.keys
    \/ "type" \notin data.track.keys
    \/ data.track.type # "track"
    \/ data.track.keys = {}
    \/ "name" \notin data.track.keys
    \/ "track_number" \notin data.track.keys

HasArtist(t) == "artists" \in t.keys /\ Len(t.artists) > 0

TrackInit(data) ==
    LET t == data.track IN
    [attrs |-> {"track", "name", "track_number"}
               \cup (IF "album" \in t.keys THEN {"album"} ELSE {})
               \cup (IF HasArtist(t) THEN {"artist", "spotify_url"} ELSE {}),
     album |-> IF "album" \in t.keys THEN t.album.name ELSE "",
     artist |-> IF HasArtist(t) THEN t.artists[1].name ELSE "",
     spotify_url |-> IF HasArtist(t) THEN t.artists[1].external_urls.spotify ELSE "",
     name |-> t.name,
     track_number |-> t.track_number]

----------------------------------------------------------------------------
(* Playlist.__download_tracks, piece by piece                              *)

\* The value __download_tracks returns: None, or a list.
NoneList == [none |-> TRUE, list |-> <<>>]
SomeList(l) == [none |-> FALSE, list |-> l]

\* A loop test that is off by one: `index <= self.tracks_size`.
LoopCondInclusive(i, size) == i <= size

\* `while index < self.tracks_size`
LoopCond(i, size) == i < size

\* `query = {"limit": 50, "offset": index}`
Query(i) == [limit |-> Limit, offset |-> i]

\* An accumulation that puts the new page in front: `dlist = items + dlist`.
PrependItems(dl, items) == items \o dl

\* `dlist += data['items']`
AppendItems(dl, items) == dl \o items

\* A cursor that advances by the page size: `index += query['limit']`.
AdvanceByLimit(i, items) == i + Limit

\* A cursor that never advances.
AdvanceNone(i, items) == i

\* `index += len(data['items'])`
AdvanceIndex(i, items) == i + Len(items)

\* `index = self.tracks_size + 1` of the non-200 branch
StopIndex(size) == size + 1

\* A terminal check that only rejects a short list: `len(dlist) < ...`.
ReconcileShortOnly(dl, size) == IF Len(dl) < size THEN NoneList ELSE SomeList(dl)

\* `if len(dlist) != self.tracks_size: dlist = None` and `return dlist`
Reconcile(dl, size) == IF Len(dl) # size THEN NoneList ELSE SomeList(dl)

----------------------------------------------------------------------------
(* Playlist.__len__, Playlist.write_csv                                    *)

\* `return self.tracks_size`
PlaylistLen(p) == p.tracks_size

HeaderRow == <<"Track", "Album", "Artist", "Spotify URL">>
SeparatorRow == <<"-", "-", "-", "-">>

\* `row = [track.name, track.album, track.artist, track.spotify_url]` reads
\* four attributes of the track.
RowReadable(t) == {"name", "album", "artist", "spotify_url"} \subseteq t.attrs
TrackRow(t) == <<t.name, t.album, t.artist, t.spotify_url>>

\* The number of track rows write_csv writes before it ends or raises.
RowsWritten(p) ==
    IF \A i \in 1..Len(p.tracks) : RowReadable(p.tracks[i])
    THEN Len(p.tracks)
    ELSE (CHOOSE i \in 1..Len(p.tracks) :
             /\ ~RowReadable(p.tracks[i])
             /\ \A j \in 1..(i - 1) : RowReadable(p.tracks[j])) - 1

\* write_csv raises AttributeError on an unset self.name or track attribute.
WriteCsvRaises(p) ==
    \/ "name" \notin p.attrs
    \/ \E i \in 1..Len(p.tracks) : ~RowReadable(p.tracks[i])

\* The rows write_csv hands to the writer, up to the point where it raises.
WriteCsvRows(p) ==
    IF "name" \notin p.attrs THEN <<>>
    ELSE <<<<p.name>>, HeaderRow>>
         \o [i \in 1..RowsWritten(p) |-> TrackRow(p.tracks[i])]
         \o (IF WriteCsvRaises(p) THEN <<>> ELSE <<SeparatorRow>>)

----------------------------------------------------------------------------
(* The state                                                               *)

VARIABLES
    pc,         \* where main() is: start, fetch, open, export, done, exit, crashed
    exc,        \* the exception that ended the run, "" when none
    listing,    \* the response to the listing request
    listReqs,   \* listing requests issued
    playlists,  \* the Playlist objects built by spotify_get_playlists
    cur,        \* the playlist of main's download loop
    calls,      \* the playlists get_tracks was invoked on, in order
    returned,   \* per playlist: what get_tracks returned ("pending" before)
    fpc,        \* where get_tracks is: idle, loop, await, got
    index,      \* __download_tracks: index
    dlist,      \* __download_tracks: dlist
    query,      \* __download_tracks: the query of the last request
    response,   \* __download_tracks: the last response
    received,   \* the non-empty item lists of this fetch's pages, in arrival order
    nreq,       \* page requests issued by this fetch (saturates at MaxReq)
    downloaded, \* get_tracks: downloaded
    tpos,       \* get_tracks: position of the for loop over downloaded
    summary,    \* the summary lines printed
    opened,     \* the output file was opened
    sink,       \* the rows written to the csv writer
    written     \* the playlists write_csv was invoked on, in order

mainVars == <<pc, exc, listing, listReqs, playlists, cur, calls, returned>>
fetchVars == <<fpc, index, dlist, query, response, received, nreq, downloaded, tpos>>
outVars == <<summary, opened, sink, written>>
vars == <<mainVars, fetchVars, outVars>>

\* main() after spotify_login() has returned the session.
Init ==
    /\ pc = "start"
    /\ exc = ""
    /\ listing = NoListing
    /\ listReqs = 0
    /\ playlists = <<>>
    /\ cur = 0
    /\ calls = <<>>
    /\ returned = <<>>
    /\ fpc = "idle"
    /\ index = 0
    /\ dlist = <<>>
    /\ query = Query(0)
    /\ response = NoResponse
    /\ received = <<>>
    /\ nreq = 0
    /\ downloaded = NoneList
    /\ tpos = 0
    /\ summary = <<>>
    /\ opened = FALSE
    /\ sink = <<>>
    /\ written = <<>>

----------------------------------------------------------------------------
(* spotify_get_playlists                                                   *)

\* An enumerator that forgets to compare total with the number of items.
ListingAcceptedByStatus(resp) == resp.status = 200

\* `expected_size == total_size` under `status_code == 200`
ListingAccepted(resp) == resp.status = 200 /\ resp.total = Len(resp.items)

\* The items Playlist() is constructed from before the loop ends or raises.
Constructed(items) ==
    IF \A i \in 1..Len(items) : ~PlaylistInitRaises(items[i])
    THEN Len(items)
    ELSE (CHOOSE i \in 1..Len(items) :
             /\ PlaylistInitRaises(items[i])
             /\ \A j \in 1..(i - 1) : ~PlaylistInitRaises(items[j])) - 1

\* main step 2: one listing request, the response `resp`, and the
\* construction of the playlists; then `if len(playlists) > 0`.
Enumerate(resp) ==
    /\ pc = "start"
    /\ listReqs' = listReqs + 1
    /\ listing' = resp
    /\ IF ListingAccepted(resp)
       THEN LET n == Constructed(resp.items) IN
            /\ playlists' = [i \in 1..n |-> PlaylistInit(resp.items[i])]
            /\ returned' = [i \in 1..n |-> "pending"]
            /\ IF n < Len(resp.items)
               THEN pc' = "crashed" /\ exc' = "KeyError" /\ cur' = cur
               ELSE IF n > 0
                    THEN pc' = "fetch" /\ cur' = 1 /\ exc' = exc
                    ELSE pc' = "exit" /\ cur' = cur /\ exc' = exc
       ELSE /\ playlists' = <<>>
            /\ returned' = <<>>
            /\ pc' = "exit"
            /\ UNCHANGED <<cur, exc>>
    /\ UNCHANGED <<calls, fetchVars, outVars>>

----------------------------------------------------------------------------
(* Playlist.get_tracks and Playlist.__download_tracks                      *)

Self == playlists[cur]

\* A download loop that stays on the playlist it has just fetched.
SamePlaylist(c) == c

\* `for playlist in playlists:` moves on to the next playlist.
NextPlaylist(c) == c + 1

\* The request counter stops growing at MaxReq.
CountRequest(n) == Min(n + 1, MaxReq)

\* The page log takes the item list of a page that carries items.
LogPage(log, page) ==
    IF page.status = 200 /\ "items" \in page.keys /\ Len(page.items) > 0
    THEN Append(log, page.items)
    ELSE log

\* The locals of get_tracks and __download_tracks, gone when it returns.
ResetLocals ==
    /\ index' = 0
    /\ dlist' = <<>>
    /\ query' = Query(0)
    /\ response' = NoResponse
    /\ received' = <<>>
    /\ nreq' = 0
    /\ downloaded' = NoneList
    /\ tpos' = 0

\* main calls playlist.get_tracks(session) with the session of the login,
\* which is not None; get_tracks enters __download_tracks.
BeginGetTracks ==
    /\ pc = "fetch"
    /\ fpc = "idle"
    /\ cur <= Len(playlists)
    /\ calls' = Append(calls, cur)
    /\ fpc' = "loop"
    /\ ResetLocals
    /\ UNCHANGED <<pc, exc, listing, listReqs, playlists, cur, returned, outVars>>

\* The loop test reads self.tracks_size, which Playlist.__init__ left unset
\* for an item without `tracks`: AttributeError.
LoopAttributeError ==
    /\ pc = "fetch"
    /\ fpc = "loop"
    /\ "tracks_size" \notin Self.attrs
    /\ pc' = "crashed"
    /\ exc' = "AttributeError"
    /\ returned' = [returned EXCEPT ![cur] = "raised"]
    /\ UNCHANGED <<listing, listReqs, playlists, cur, calls, fetchVars, outVars>>

\* The loop test holds: session.get(self.tracks_uri, params=query).
SendRequest ==
    /\ pc = "fetch"
    /\ fpc = "loop"
    /\ "tracks_size" \in Self.attrs
    /\ LoopCond(index, Self.tracks_size)
    /\ query' = Query(index)
    /\ nreq' = CountRequest(nreq)
    /\ fpc' = "await"
    /\ UNCHANGED <<mainVars, index, dlist, response, received, downloaded, tpos, outVars>>

\* The response `page` arrives and the loop body handles it.  The non-200
\* branch formats self.name into its message before it sets index.
RecvResponse(page) ==
    /\ pc = "fetch"
    /\ fpc = "await"
    /\ response' = page
    /\ received' = LogPage(received, page)
    /\ IF page.status = 200
       THEN /\ IF "items" \in page.keys
               THEN /\ dlist' = AppendItems(dlist, page.items)
                    /\ index' = AdvanceIndex(index, page.items)
               ELSE UNCHANGED <<dlist, index>>
            /\ fpc' = "loop"
            /\ UNCHANGED <<pc, exc, returned>>
       ELSE IF "name" \in Self.attrs
            THEN /\ index' = StopIndex(Self.tracks_size)
                 /\ fpc' = "loop"
                 /\ UNCHANGED <<pc, exc, returned, dlist>>
            ELSE /\ pc' = "crashed"
                 /\ exc' = "AttributeError"
                 /\ returned' = [returned EXCEPT ![cur] = "raised"]
                 /\ UNCHANGED <<fpc, index, dlist>>
    /\ UNCHANGED <<listing, listReqs, playlists, cur, calls, query, nreq, downloaded, tpos, outVars>>

\* The loop test fails: the terminal check, and __download_tracks returns.
ExitLoop ==
    /\ pc = "fetch"
    /\ fpc = "loop"
    /\ "tracks_size" \in Self.attrs
    /\ ~LoopCond(index, Self.tracks_size)
    /\ downloaded' = Reconcile(dlist, Self.tracks_size)
    /\ fpc' = "got"
    /\ tpos' = 1
    /\ UNCHANGED <<mainVars, index, dlist, query, response, received, nreq, outVars>>

\* `downloaded is None`: get_tracks returns False; main goes on.
ReturnFalse ==
    /\ pc = "fetch"
    /\ fpc = "got"
    /\ downloaded.none
    /\ returned' = [returned EXCEPT ![cur] = "False"]
    /\ cur' = NextPlaylist(cur)
    /\ fpc' = "idle"
    /\ ResetLocals
    /\ UNCHANGED <<pc, exc, listing, listReqs, playlists, calls, outVars>>

\* One turn of `for track in downloaded: self.tracks.append(Track(track))`.
ParseTrack ==
    /\ pc = "fetch"
    /\ fpc = "got"
    /\ ~downloaded.none
    /\ tpos <= Len(downloaded.list)
    /\ IF TrackInitRaises(downloaded.list[tpos])
       THEN /\ pc' = "crashed"
            /\ exc' = "Exception"
            /\ returned' = [returned EXCEPT ![cur] = "raised"]
            /\ UNCHANGED <<playlists, tpos>>
       ELSE /\ playlists' = [playlists EXCEPT ![cur].tracks =
                                Append(@, TrackInit(downloaded.list[tpos]))]
            /\ tpos' = tpos + 1
            /\ UNCHANGED <<pc, exc, returned>>
    /\ UNCHANGED <<listing, listReqs, cur, calls>>
    /\ UNCHANGED <<fpc, index, dlist, query, response, received, nreq, downloaded, outVars>>

\* The for loop is over: get_tracks returns True; main goes on.
ReturnTrue ==
    /\ pc = "fetch"
    /\ fpc = "got"
    /\ ~downloaded.none
    /\ tpos > Len(downloaded.list)
    /\ returned' = [returned EXCEPT ![cur] = "True"]
    /\ cur' = NextPlaylist(cur)
    /\ fpc' = "idle"
    /\ ResetLocals
    /\ UNCHANGED <<pc, exc, listing, listReqs, playlists, calls, outVars>>

----------------------------------------------------------------------------
(* main, steps 3 (summary) and 4 (export)                                  *)

SummaryLine(p) == [name |-> p.name, count |-> PlaylistLen(p)]

\* The playlists whose summary line is printed before the loop ends or
\* raises on an unset name.
Summarised(ps) ==
    IF \A i \in 1..Len(ps) : "name" \in ps[i].attrs
    THEN Len(ps)
    ELSE (CHOOSE i \in 1..Len(ps) :
             /\ "name" \notin ps[i].attrs
             /\ \A j \in 1..(i - 1) : "name" \in ps[j].attrs) - 1

\* `for playlist in playlists: print(... playlist.name, len(playlist) ...)`
PrintSummary ==
    /\ pc = "fetch"
    /\ fpc = "idle"
    /\ cur > Len(playlists)
    /\ summary' = [i \in 1..Summarised(playlists) |-> SummaryLine(playlists[i])]
    /\ IF Summarised(playlists) < Len(playlists)
       THEN pc' = "crashed" /\ exc' = "AttributeError"
       ELSE pc' = "open" /\ exc' = exc
    /\ UNCHANGED <<listing, listReqs, playlists, cur, calls, returned>>
    /\ UNCHANGED <<fetchVars, opened, sink, written>>

\* `with open(args.output, "w") as f`
OpenOutput ==
    /\ pc = "open"
    /\ opened' = TRUE
    /\ pc' = "export"
    /\ UNCHANGED <<exc, listing, listReqs, playlists, cur, calls, returned>>
    /\ UNCHANGED <<fetchVars, summary, sink, written>>

\* One turn of `for playlist in playlists: playlist.write_csv(writer)`.
WriteCsv ==
    /\ pc = "export"
    /\ Len(written) < Len(playlists)
    /\ LET i == Len(written) + 1 IN
       /\ written' = Append(written, i)
       /\ sink' = sink \o WriteCsvRows(playlists[i])
       /\ IF WriteCsvRaises(playlists[i])
          THEN pc' = "crashed" /\ exc' = "AttributeError"
          ELSE pc' = pc /\ exc' = exc
    /\ UNCHANGED <<listing, listReqs, playlists, cur, calls, returned>>
    /\ UNCHANGED <<fetchVars, summary, opened>>

\* The export loop is over and main returns.
Finish ==
    /\ pc = "export"
    /\ Len(written) = Len(playlists)
    /\ pc' = "done"
    /\ UNCHANGED <<exc, listing, listReqs, playlists, cur, calls, returned>>
    /\ UNCHANGED <<fetchVars, outVars>>

----------------------------------------------------------------------------
Next ==
    \/ \E resp \in Listings : Enumerate(resp)
    \/ BeginGetTracks
    \/ LoopAttributeError
    \/ SendRequest
    \/ \E page \in Pages : RecvResponse(page)
    \/ ExitLoop
    \/ ReturnFalse
    \/ ParseTrack
    \/ ReturnTrue
    \/ PrintSummary
    \/ OpenOutput
    \/ WriteCsv
    \/ Finish

Spec == Init /\ [][Next]_vars

\* The run from the point where spotify_get_playlists has returned one
\* playlist, built from any listing item it accepts.
FetchInit ==
    \E item \in ListingItems :
        /\ ~PlaylistInitRaises(item)
        /\ pc = "fetch"
        /\ exc = ""
        /\ listing = ListingOk(1, <<item>>)
        /\ listReqs = 1
        /\ playlists = <<PlaylistInit(item)>>
        /\ cur = 1
        /\ calls = <<>>
        /\ returned = <<"pending">>
        /\ fpc = "idle"
        /\ index = 0
        /\ dlist = <<>>
        /\ query = Query(0)
        /\ response = NoResponse
        /\ received = <<>>
        /\ nreq = 0
        /\ downloaded = NoneList
        /\ tpos = 0
        /\ summary = <<>>
        /\ opened = FALSE
        /\ sink = <<>>
        /\ written = <<>>

FetchNext ==
    \/ BeginGetTracks
    \/ LoopAttributeError
    \/ SendRequest
    \/ \E page \in Pages : RecvResponse(page)
    \/ ExitLoop
    \/ ReturnFalse
    \/ ParseTrack
    \/ ReturnTrue
    \/ PrintSummary
    \/ OpenOutput
    \/ WriteCsv
    \/ Finish

FetchSpec == FetchInit /\ [][FetchNext]_vars

\* The program is one thread that always takes its next step, and the
\* provider answers every request.
FairFetchSpec == FetchSpec /\ WF_vars(FetchNext)

\* The provider's pages when every status-200 page carries at least one item.
FullPages == {p \in Pages : p.status = 200 => ("items" \in p.keys /\ Len(p.items) > 0)}

FullNext ==
    \/ BeginGetTracks
    \/ LoopAttributeError
    \/ SendRequest
    \/ \E page \in FullPages : RecvResponse(page)
    \/ ExitLoop
    \/ ReturnFalse
    \/ ParseTrack
    \/ ReturnTrue
    \/ PrintSummary
    \/ OpenOutput
    \/ WriteCsv
    \/ Finish

\* The run for one playlist against a provider that never answers 200 with
\* an empty or item-less page; the program always takes its next step.
FairFullSpec == FetchInit /\ [][FullNext]_vars /\ WF_vars(FullNext)

\* The listing responses that carry at most one item.
ShortListings ==
    {ListingOk(t, s) : t \in 0..MaxPlaylists, s \in SeqsUpTo(ListingItems, 1)}
    \cup {ListingError(st) : st \in Statuses \ {200}}

ShortNext ==
    \/ \E resp \in ShortListings : Enumerate(resp)
    \/ FetchNext

\* The whole run of main() for an account that lists at most one playlist.
ShortSpec == Init /\ [][ShortNext]_vars

\* get_tracks at the start of its for loop, for a complete playlist of one
\* track whose page carried the raw item `item`: the state after
\* BeginGetTracks, SendRequest, RecvResponse(PageOk(<<item>>)) and ExitLoop.
TrackInitState(item) ==
    /\ pc = "fetch"
    /\ exc = ""
    /\ listing = ListingOk(1, <<RawPlaylist(PlaylistKeys, 1)>>)
    /\ listReqs = 1
    /\ playlists = <<PlaylistInit(RawPlaylist(PlaylistKeys, 1))>>
    /\ cur = 1
    /\ calls = <<1>>
    /\ returned = <<"pending">>
    /\ fpc = "got"
    /\ index = 1
    /\ dlist = <<item>>
    /\ query = Query(0)
    /\ response = PageOk(<<item>>)
    /\ received = <<<<item>>>>
    /\ nreq = 1
    /\ downloaded = SomeList(<<item>>)
    /\ tpos = 1
    /\ summary = <<>>
    /\ opened = FALSE
    /\ sink = <<>>
    /\ written = <<>>

TrackSpecInit == \E item \in ParserItems : TrackInitState(item)

TrackNext ==
    \/ ParseTrack
    \/ ReturnTrue
    \/ PrintSummary
    \/ OpenOutput
    \/ WriteCsv
    \/ Finish

\* Track.__init__ on every raw item of ParserItems, and the run after it.
TrackSpec == TrackSpecInit /\ [][TrackNext]_vars

----------------------------------------------------------------------------
(* Properties                                                              *)

RECURSIVE Flatten(_)
Flatten(ss) == IF ss = <<>> THEN <<>> ELSE Head(ss) \o Flatten(Tail(ss))

InFetch == pc = "fetch" /\ fpc # "idle"

\* No response of this fetch had a status other than 200.
NoErrorPage == response.status \in {0, 200}

\* Every request of this fetch was answered by a 200 page with items.
OnlyFullPages == fpc # "await" /\ nreq = Len(received) /\ nreq < MaxReq

\* C1: when the pages of a fetch are status-200 pages of at least one item
\* each and their item counts sum to exactly tracks_size, the fetch returns
\* a list of exactly tracks_size items, the concatenation of the pages'
\* items in arrival order.
C1_FetchReturnsPagesInOrder ==
    (/\ InFetch
     /\ fpc = "got"
     /\ OnlyFullPages
     /\ Len(Flatten(received)) = Self.tracks_size)
    => (/\ ~downloaded.none
        /\ downloaded.list = Flatten(received)
        /\ Len(downloaded.list) = Self.tracks_size)

C1_Witness ==
    /\ InFetch
    /\ fpc = "got"
    /\ OnlyFullPages
    /\ Self.tracks_size = 2
    /\ received = <<<<ItemA>>, <<ItemX>>>>
    /\ downloaded = SomeList(<<ItemA, ItemX>>)

\* C7: when the loop exits and no response had a status other than 200,
\* the fetch returns a list if and only if the number of accumulated items
\* equals tracks_size; a list longer than tracks_size is a failure that
\* returns no items.
C7_ReconciliationExact ==
    (InFetch /\ fpc = "got" /\ NoErrorPage)
    => (/\ ~downloaded.none <=> Len(dlist) = Self.tracks_size
        /\ ~downloaded.none => downloaded.list = dlist
        /\ downloaded.none => downloaded.list = <<>>)

C7_Witness ==
    /\ InFetch
    /\ fpc = "got"
    /\ NoErrorPage
    /\ Len(dlist) > Self.tracks_size
    /\ downloaded = NoneList

\* C8: a playlist with tracks_size = 0 gets no page request, its fetch
\* returns the empty list, get_tracks returns True and its tracks stay
\* empty.
C8_ZeroTotalNoRequest ==
    \A i \in 1..Len(playlists) :
        ("tracks_size" \in playlists[i].attrs /\ playlists[i].tracks_size = 0)
        => (/\ playlists[i].tracks = <<>>
            /\ returned[i] \in {"pending", "True"}
            /\ (cur > i => returned[i] = "True")
            /\ (InFetch /\ cur = i)
               => (/\ nreq = 0
                   /\ fpc # "await"
                   /\ fpc = "got" => downloaded = SomeList(<<>>)))

C8_Witness ==
    /\ Len(playlists) >= 1
    /\ playlists[1].tracks_size = 0
    /\ "tracks_size" \in playlists[1].attrs
    /\ returned[1] = "True"
    /\ playlists[1].tracks = <<>>

\* C2: a fetch whose pages stop delivering items before tracks_size is
\* reached still ends: every fetch that is under way ends, by get_tracks
\* returning or by the run ending.
C2_StalledFetchTerminates == InFetch ~> ~InFetch

\* C3: after the first response whose status is not 200 the fetch ends with
\* the failure signal: the loop is over, no request follows, and the value
\* returned is None.
C3_ErrorPageEndsFetchWithNone ==
    response.status \notin {0, 200}
    => (/\ pc = "fetch"
        /\ fpc \in {"loop", "got"}
        /\ ~LoopCond(index, Self.tracks_size)
        /\ fpc = "got" => downloaded = NoneList)

\* C4: every playlist write_csv is called on is complete: its get_tracks
\* returned True and it holds tracks_size tracks.
C4_ExportedPlaylistsComplete ==
    \A k \in 1..Len(written) :
        /\ returned[written[k]] = "True"
        /\ Len(playlists[written[k]].tracks) = playlists[written[k]].tracks_size

\* The for loop of get_tracks stands at a raw item Track() raises on.
ParserFails ==
    /\ fpc = "got"
    /\ ~downloaded.none
    /\ tpos <= Len(downloaded.list)
    /\ TrackInitRaises(downloaded.list[tpos])

\* C5: a Track() that raises inside get_tracks is contained to its playlist:
\* the run does not end with the exception, and get_tracks does not raise.
C5_ParserFailureContained ==
    ParserFails => (pc # "crashed" /\ returned[cur] # "raised")

Range(f) == {f[i] : i \in DOMAIN f}

\* The run has left the download loop of main.
DownloadsOver == pc \in {"open", "export", "done", "crashed"}

\* C6: a fetch that fails (non-200 page or count mismatch) makes get_tracks
\* return False, leaves the playlist's tracks empty and its metadata as
\* constructed, and get_tracks is still called on every later playlist.
C6_FetchFailureIsolated ==
    /\ response.status \notin {0, 200} => pc # "crashed"
    /\ \A i \in 1..Len(playlists) :
          returned[i] = "False"
          => (/\ playlists[i] = PlaylistInit(listing.items[i])
              /\ DownloadsOver
                 => \A j \in (i + 1)..Len(listing.items) : j \in Range(calls))

\* C9: the enumerator issues one listing request and returns one Playlist
\* per listing item, in listing order, if and only if the status is 200 and
\* total equals the number of items; otherwise it returns the empty list.
C9_EnumeratorAllOrNothing ==
    pc # "start"
    => (/\ listReqs = 1
        /\ IF ListingAccepted(listing)
           THEN /\ Len(playlists) = Len(listing.items)
                /\ \A i \in 1..Len(playlists) :
                      [playlists[i] EXCEPT !.tracks = <<>>]
                          = PlaylistInit(listing.items[i])
           ELSE playlists = <<>>)

\* The attributes Playlist.__init__ sets from a key of the raw item.
AttrsOfKey(k) ==
    CASE k = "description" -> {"description"}
      [] k = "name" -> {"name"}
      [] k = "owner" -> {"owner"}
      [] k = "tracks" -> {"tracks_size", "tracks_uri"}
      [] k = "href" -> {"uri"}
      [] OTHER -> {}

\* C10: Playlist() never raises: for every item of an accepted listing the
\* construction completes, a present field sets its attribute, a missing
\* field leaves it unset, and tracks is set.
C10_PlaylistParserNeverFails ==
    (pc # "start" /\ ListingAccepted(listing))
    => \A i \in 1..Len(listing.items) :
          /\ i <= Len(playlists)
          /\ "tracks" \in playlists[i].attrs
          /\ \A k \in PlaylistKeys :
                IF k \in listing.items[i].keys
                THEN AttrsOfKey(k) \subseteq playlists[i].attrs
                ELSE AttrsOfKey(k) \cap playlists[i].attrs = {}

\* The raw items the Track Parser has to reject: no `track` key, an empty
\* payload, or a type tag that is not "track".
MustReject(item) ==
    \/ "track" \notin item.keys
    \/ item.track.keys = {}
    \/ "type" \notin item.track.keys
    \/ item.track.type # "track"

EmptyArtists(item) == "artists" \in item.track.keys /\ item.track.artists = <<>>

\* The payload carries the two fields Track.__init__ reads unconditionally.
HasNameAndNumber(item) == {"name", "track_number"} \subseteq item.track.keys

\* Item k of downloaded has been turned into a Track / has made Track() raise.
TrackBuilt(k) == fpc = "got" /\ ~downloaded.none /\ k < tpos
TrackRaised(k) == fpc = "got" /\ ~downloaded.none /\ k = tpos /\ pc = "crashed"

\* C11 (as stated): Track() fails on every item without `track`, with an
\* empty payload or with a tag other than "track", and succeeds, with artist
\* and URL unset, on every tagged non-empty payload whose artists list is
\* empty.
C11_TrackParserAsStated ==
    \A k \in 1..Len(downloaded.list) :
        /\ TrackBuilt(k)
           => (/\ ~MustReject(downloaded.list[k])
               /\ EmptyArtists(downloaded.list[k])
                  => {"artist", "spotify_url"} \cap Self.tracks[k].attrs = {})
        /\ TrackRaised(k)
           => ~(~MustReject(downloaded.list[k]) /\ EmptyArtists(downloaded.list[k]))

\* C11 (amended): as stated, but the success is for payloads that also
\* carry `name` and `track_number`.
C11_TrackParser ==
    \A k \in 1..Len(downloaded.list) :
        /\ TrackBuilt(k)
           => (/\ ~MustReject(downloaded.list[k])
               /\ EmptyArtists(downloaded.list[k])
                  => {"artist", "spotify_url"} \cap Self.tracks[k].attrs = {})
        /\ TrackRaised(k)
           => ~(/\ ~MustReject(downloaded.list[k])
                /\ EmptyArtists(downloaded.list[k])
                /\ HasNameAndNumber(downloaded.list[k]))

C11_Witness ==
    /\ TrackBuilt(1)
    /\ EmptyArtists(downloaded.list[1])
    /\ "album" \in downloaded.list[1].track.keys
    /\ {"artist", "spotify_url"} \cap Self.tracks[1].attrs = {}
    /\ "album" \in Self.tracks[1].attrs

\* get_tracks on playlist i has appended a Track for every downloaded item
\* and has not returned yet.
AllParsed(i) ==
    /\ pc = "fetch"
    /\ cur = i
    /\ fpc = "got"
    /\ ~downloaded.none
    /\ tpos > Len(downloaded.list)

\* C12 (as stated): len(tracks) == tracks_size holds if and only if the
\* playlist's get_tracks has returned True; it never holds for a playlist
\* that is fresh, being populated or failed, a declared total of 0 included.
C12_CompleteIffCountMatches ==
    \A i \in 1..Len(playlists) :
        "tracks_size" \in playlists[i].attrs
        => (Len(playlists[i].tracks) = playlists[i].tracks_size
            <=> returned[i] = "True")

\* C12 (amended): len(tracks) == tracks_size holds once get_tracks has
\* returned True; for a declared total above 0 it holds only then, or in
\* the moment before that return when every downloaded item is parsed.
C12_CountMatchesWhenComplete ==
    \A i \in 1..Len(playlists) :
        "tracks_size" \in playlists[i].attrs
        => (/\ returned[i] = "True"
               => Len(playlists[i].tracks) = playlists[i].tracks_size
            /\ (/\ playlists[i].tracks_size > 0
                /\ Len(playlists[i].tracks) = playlists[i].tracks_size)
               => (returned[i] = "True" \/ AllParsed(i)))

C12_Witness ==
    /\ Len(playlists) >= 1
    /\ "tracks_size" \in playlists[1].attrs
    /\ playlists[1].tracks_size = 2
    /\ Len(playlists[1].tracks) = 2
    /\ returned[1] = "True"

\* The listing request has been answered and yields no playlist: a status
\* other than 200, a total that is not the number of items, or no items.
NoPlaylistsListed ==
    /\ pc # "start"
    /\ \/ listing.status # 200
       \/ listing.total # Len(listing.items)
       \/ Len(listing.items) = 0

\* C13: the listing request is issued once per run, and when the enumerator
\* returns no playlists the run ends there: no get_tracks call, no track
\* page request, the output file is never opened and no row is written.
C13_EnumerationFailureFatal ==
    /\ listReqs = (IF pc = "start" THEN 0 ELSE 1)
    /\ NoPlaylistsListed
       => (/\ pc = "exit"
           /\ playlists = <<>>
           /\ calls = <<>>
           /\ fpc = "idle"
           /\ nreq = 0
           /\ ~opened
           /\ sink = <<>>
           /\ written = <<>>)

C13_Witness ==
    /\ pc = "exit"
    /\ listing.status = 200
    /\ Len(listing.items) = 1
    /\ listing.total = 2
    /\ listReqs = 1
    /\ ~opened

\* The rows the exporter is said to emit for playlist p: len(tracks) + 3.
ExportRows(p) ==
    <<<<p.name>>, HeaderRow>>
    \o [i \in 1..Len(p.tracks) |-> TrackRow(p.tracks[i])]
    \o <<SeparatorRow>>

RECURSIVE ExportOf(_)
\* The rows of the playlists ws, one playlist after the other.
ExportOf(ws) ==
    IF ws = <<>> THEN <<>>
    ELSE ExportOf(SubSeq(ws, 1, Len(ws) - 1)) \o ExportRows(playlists[ws[Len(ws)]])

\* C14: for every playlist write_csv was invoked on, the writer holds the
\* name row, the column-header row, one row per track in track order and the
\* separator row, in this order: len(tracks) + 3 rows per playlist.
C14_ExporterRows == sink = ExportOf(written)

\* C18: the track count of each summary line is the number of Track records
\* the playlist holds, also for a playlist whose fetch failed.
C18_SummaryCountsHeldTracks ==
    \A i \in 1..Len(summary) : summary[i].count = Len(playlists[i].tracks)

\* C19: write_csv completes on every playlist whose tracks Track.__init__
\* constructed, a track without album or artist included: the export of a
\* named playlist never ends in an exception.
C19_AcceptedTracksExportable ==
    \A k \in 1..Len(written) :
        "name" \in playlists[written[k]].attrs
        => ~(k = Len(written) /\ pc = "crashed")

\* C20: get_tracks returns True or False on every playlist the enumerator
\* returned, one without tracks_size / tracks_uri included; it never raises.
C20_AcceptedPlaylistFetchable ==
    \A i \in 1..Len(returned) : returned[i] \in {"pending", "True", "False"}

\* The request in flight carries limit 50 and the number of accumulated
\* items as offset, and the cursor is that number until an error page.
CursorIsAccumulated ==
    /\ (InFetch /\ fpc = "await")
       => (/\ query.limit = 50
           /\ query.offset = Len(dlist)
           /\ query.offset = index)
    /\ (InFetch /\ NoErrorPage)
       => (index = Len(dlist) /\ dlist = Flatten(received))

\* The step that handles a 200 page: k items move cursor and accumulator
\* by k, a page without `items` moves neither.
CursorStep ==
    (InFetch /\ fpc = "await" /\ fpc' = "loop" /\ response'.status = 200)
    => IF "items" \in response'.keys
       THEN /\ index' = index + Len(response'.items)
            /\ Len(dlist') = Len(dlist) + Len(response'.items)
            /\ dlist' = dlist \o response'.items
       ELSE index' = index /\ dlist' = dlist

\* The step that sends a request: limit 50, offset = accumulated items.
RequestStep ==
    (InFetch /\ fpc = "loop" /\ fpc' = "await")
    => query' = [limit |-> 50, offset |-> Len(dlist)]

\* C15: every page request carries limit 50 and an offset equal to the
\* number of items accumulated so far (0 at first); a 200 page of k items
\* advances the offset by exactly k, and a 200 page without `items` changes
\* neither offset nor accumulator.
C15_CursorInvariant ==
    /\ []CursorIsAccumulated
    /\ [][CursorStep /\ RequestStep]_vars

C15_Witness ==
    /\ InFetch
    /\ fpc = "await"
    /\ nreq = 2
    /\ received = <<<<ItemA>>>>
    /\ query = [limit |-> 50, offset |-> 1]

\* The sequence 1, 2, ..., n: enumeration order without gap or repeat.
Iota(n) == [i \in 1..n |-> i]

RECURSIVE RowsOf(_)
\* What write_csv wrote for the playlists ws, one after the other.
RowsOf(ws) ==
    IF ws = <<>> THEN <<>>
    ELSE RowsOf(SubSeq(ws, 1, Len(ws) - 1)) \o WriteCsvRows(playlists[ws[Len(ws)]])

\* get_tracks was invoked on the playlists 1..k in this order, once each,
\* and k is the playlist main's loop is at.
FetchedInOrder ==
    /\ calls = Iota(Len(calls))
    /\ Len(calls) <= Len(playlists)
    /\ pc = "fetch" => Len(calls) = (IF fpc = "idle" THEN cur - 1 ELSE cur)

\* While playlist cur is being fetched every earlier get_tracks has
\* returned and no later playlist has been touched.
OneFetchAtATime ==
    /\ fpc # "idle" => (cur \in 1..Len(playlists) /\ calls[Len(calls)] = cur)
    /\ \A i \in 1..Len(playlists) :
          /\ (pc = "fetch" /\ i < cur) => returned[i] \in {"True", "False"}
          /\ i > Len(calls) => (returned[i] = "pending" /\ playlists[i].tracks = <<>>)

\* The export starts after every playlist was fetched once and writes the
\* playlists in enumeration order, each one's rows after the previous one's.
ExportedInOrder ==
    /\ written = Iota(Len(written))
    /\ Len(written) <= Len(playlists)
    /\ sink = RowsOf(written)
    /\ pc \in {"open", "export", "done"} => calls = Iota(Len(playlists))
    /\ written # <<>> => calls = Iota(Len(playlists))
    /\ pc = "done" => written = Iota(Len(playlists))

LoopRunning == pc = "fetch" /\ fpc \in {"loop", "await"}

\* The requests of a fetch never outnumber tracks_size, and after a page
\* with a status other than 200 they are one more than the pages of items.
RequestsBounded ==
    InFetch
    => (/\ nreq <= Self.tracks_size
        /\ nreq < MaxReq
        /\ ~NoErrorPage => (nreq = Len(received) + 1 /\ fpc # "await"))

\* C17: when every status-200 page carries at least one item the loop of
\* __download_tracks ends for every tracks_size, after at most tracks_size
\* page requests, and after one request more than the pages of items when
\* a page with another status arrives.
C17_FetchTerminates ==
    /\ []RequestsBounded
    /\ LoopRunning ~> ~LoopRunning

C17_Witness ==
    /\ InFetch
    /\ fpc = "got"
    /\ Self.tracks_size = 2
    /\ nreq = 2
    /\ Len(received) = 2
    /\ NoErrorPage

====
